---- MODULE Spec2Model ----
(***************************************************************************)
(* FedClusterFHE: the ClusterStore contract (contracts/FedClusterFHE.sol)  *)
(* and the ClusterView create/list loop (frontend/web/src/App.tsx).        *)
(*                                                                         *)
(* Every entry point of the contract is one action: a transaction runs to  *)
(* completion or reverts wholly.  A revert leaves the contract storage as  *)
(* it was; the variable `last` records the call and its outcome so that a  *)
(* revert can be told from a success.                                      *)
(*                                                                         *)
(* The FHE library and the decryption oracle are outside the repository.   *)
(* They are modelled by their interface: an euint32 is either the          *)
(* uninitialized handle or a ciphertext of a 32-bit value,                 *)
(* FHE.requestDecryption always returns the next value of the oracle's     *)
(* request counter, and FHE.checkSignatures accepts a proof only for a     *)
(* request that was issued and a cleartext bundle of the shape requested.  *)
(* block.timestamp is read by no operation and is left out of the records. *)
(* Spec has every entry point called by any account with any arguments;    *)
(* SpecOracle adds the oracle's own deliveries, one per request, and the   *)
(* assumption that every outstanding request is answered.  The views       *)
(* (calculateClusterCentroids, findSimilarClusters) are operators on the   *)
(* state: the value returned or the panic that ends the call.              *)
(*                                                                         *)
(* The frontend runs are cut at their awaits: each step is one call to the *)
(* ledger (getData / setData) together with the synchronous code around    *)
(* it.  The ledger contract behind getData / setData / isAvailable is not  *)
(* among the sources; it is modelled as the key-value interface the        *)
(* frontend consumes.  Every App instance is one browser that runs         *)
(* createCluster once, loadClusters included (SpecFrontend); SpecLoad is   *)
(* one loadClusters run over any content of the ledger.                    *)
(***************************************************************************)
EXTENDS Integers, Sequences, FiniteSets, TLC

\* ------------------------------------------------------------------ bounds
\* Cap on dataPointCount (number of successful submissions).
MaxPoints == 3
\* Cap on the number of decryption requests handed to the oracle.
MaxRequests == 3
\* Number of createCluster runs of the frontend.
MaxCreators == 2
\* Longest "cluster_keys" index a loadClusters run starts from.
MaxKeys == 3
\* Caps on submissions and on requests in the runs with the oracle's
\* deliveries.
MaxOraclePoints == 2
MaxOracleRequests == 2

\* ------------------------------------------------------------- input sets
ClusterNames == {"A", "B"}
FeatureStrings == {"f1"}
OwnerStrings == {"o1"}

\* keccak256(abi.encodePacked(name)) as a uint256: injective on the names
\* used, non-zero and far above every data-point id of the model.
Keccak(name) == CASE name = "" -> 1000
                  [] name = "A" -> 1001
                  [] name = "B" -> 1002
                  [] name = "f1" -> 1003
                  [] name = "f2" -> 1004
                  [] OTHER -> 1005

ClusterHashes == {Keccak(c) : c \in ClusterNames}

\* Data-point ids a caller passes to requestFederatedClustering: 0, submitted
\* ids, and ids not submitted yet.
DataPointIds == 0..MaxPoints
\* Keys of the uint256-keyed mappings that any operation can touch.
RecordKeys == DataPointIds \cup ClusterHashes
\* Request ids a caller passes to a callback: issued ones and one never issued.
RequestIds == 0..MaxRequests

\* ------------------------------------------------------------ FHE library
\* euint32: the uninitialized handle (bytes32(0)) or a ciphertext of a value.
\* Values stay below MaxRequests + 1, far from the 32-bit wrap of FHE.add.
Uninitialized == [initialized |-> FALSE, value |-> 0]
FHEasEuint32(v) == [initialized |-> TRUE, value |-> v]
FHEisInitialized(e) == e.initialized
FHEadd(a, b) == [initialized |-> TRUE, value |-> a.value + b.value]

\* Ciphertext handles a submitter passes in.
InputCiphertexts == {FHEasEuint32(7)}

\* Cleartext bundles a callback can be handed: abi.encode(string,string,string)
\* for the clustering path, abi.encode(uint32) for the stats path.
ClearTriples == [kind : {"strings3"}, features : FeatureStrings,
                 dataOwner : OwnerStrings, clusterId : ClusterNames]
ClearCounts == [kind : {"uint32"}, value : {1}]
Cleartexts == ClearTriples \cup ClearCounts

\* ------------------------------------------------------------------ state
VARIABLES
  dataPointCount,        \* uint256 public dataPointCount
  encryptedDataPoints,   \* mapping(uint256 => EncryptedDataPoint)
  decryptedDataPoints,   \* mapping(uint256 => DecryptedDataPoint)
  encryptedClusterStats, \* mapping(string => euint32)
  clusterList,           \* string[] clusterList
  requestToDataPointId,  \* mapping(uint256 => uint256)
  decryptionRequests,    \* the oracle: request id r is entry r+1
  eventLog,              \* emitted events: the ids of DataPointSubmitted in
                         \* order, the number of ClusteringRequested and
                         \* DataPointClustered events per indexed id
  last,                  \* the last call and its outcome
  kvStore,               \* the key-value ledger: key -> bytes
  runs,                  \* per App instance: position and locals of its
                         \* loadClusters / createCluster run
  clusters,              \* per App instance: React state `clusters`
  indexTrace,            \* reads and writes of "cluster_keys" by
                         \* createCluster runs, in ledger order
  delivered              \* the oracle: the request ids whose callback it
                         \* has sent

contractVars == <<dataPointCount, encryptedDataPoints, decryptedDataPoints,
                  encryptedClusterStats, clusterList, requestToDataPointId>>
oracleVars == <<decryptionRequests>>
frontendVars == <<kvStore, runs, clusters, indexTrace>>
vars == <<dataPointCount, encryptedDataPoints, decryptedDataPoints,
          encryptedClusterStats, clusterList, requestToDataPointId,
          decryptionRequests, eventLog, last, kvStore, runs, clusters,
          indexTrace, delivered>>

EmptyEncryptedDataPoint ==
  [id |-> 0, encryptedFeatures |-> Uninitialized,
   encryptedDataOwner |-> Uninitialized, encryptedClusterId |-> Uninitialized]

EmptyDecryptedDataPoint ==
  [features |-> "", dataOwner |-> "", clusterId |-> "", isClustered |-> FALSE]

AllStrings == ClusterNames \cup FeatureStrings \cup OwnerStrings \cup {""}

\* ----------------------------------------------------------------- oracle
\* FHE.requestDecryption: the request id is the oracle's counter, which is
\* then incremented; the number of handles to decrypt and the callback
\* selector are saved.
counterRequest == Len(decryptionRequests)

\* FHE.checkSignatures(requestId, cleartexts, proof): the proof must carry the
\* signatures, and signatures exist only over the handles saved for an issued
\* request and a cleartext bundle with one value per handle.
FHEcheckSignatures(requestId, cleartexts, proof) ==
  /\ proof
  /\ requestId < counterRequest
  /\ LET req == decryptionRequests[requestId + 1] IN
       \/ req.handles = 3 /\ cleartexts.kind = "strings3"
       \/ req.handles = 1 /\ cleartexts.kind = "uint32"

\* ---------------------------------------------------------------- outcome
Call(fn, result) == [fn |-> fn, result |-> result]

\* A reverted transaction: storage, events and the oracle are as before.
Revert(fn, reason) ==
  /\ last' = Call(fn, reason)
  /\ UNCHANGED <<contractVars, oracleVars, eventLog, frontendVars>>

\* --------------------------------------------------------------- contract
\* The writes of submitEncryptedDataPoint for the id `newId` and the decrypted
\* shadow record `shadow`.
StoreDataPoint(newId, encryptedFeatures, encryptedDataOwner, encryptedClusterId, shadow) ==
  /\ dataPointCount < MaxPoints
  /\ dataPointCount' = dataPointCount + 1
  /\ encryptedDataPoints' = [encryptedDataPoints EXCEPT ![newId] =
       [id |-> newId, encryptedFeatures |-> encryptedFeatures,
        encryptedDataOwner |-> encryptedDataOwner,
        encryptedClusterId |-> encryptedClusterId]]
  /\ decryptedDataPoints' = [decryptedDataPoints EXCEPT ![newId] = shadow]
  /\ eventLog' = [eventLog EXCEPT !.DataPointSubmitted = Append(@, newId)]
  /\ last' = Call("submitEncryptedDataPoint", "ok")
  /\ UNCHANGED <<encryptedClusterStats, clusterList, requestToDataPointId,
                 oracleVars, frontendVars>>

\* Mutant: newId is read before the counter is incremented.
submitEncryptedDataPoint_StaleId(encryptedFeatures, encryptedDataOwner, encryptedClusterId) ==
  StoreDataPoint(dataPointCount, encryptedFeatures, encryptedDataOwner,
                 encryptedClusterId, EmptyDecryptedDataPoint)

\* Mutant: only the isClustered flag of the shadow record is reset.
submitEncryptedDataPoint_FlagOnly(encryptedFeatures, encryptedDataOwner, encryptedClusterId) ==
  StoreDataPoint(dataPointCount + 1, encryptedFeatures, encryptedDataOwner,
                 encryptedClusterId,
                 [decryptedDataPoints[dataPointCount + 1] EXCEPT
                    !.isClustered = FALSE])

submitEncryptedDataPoint(encryptedFeatures, encryptedDataOwner, encryptedClusterId) ==
  StoreDataPoint(dataPointCount + 1, encryptedFeatures, encryptedDataOwner,
                 encryptedClusterId, EmptyDecryptedDataPoint)

\* The body of requestFederatedClustering after its require: the three
\* handles go to the oracle and the returned id is registered under `key`.
IssueClusteringRequest(dataPointId, key) ==
  LET dp == encryptedDataPoints[dataPointId]
      ciphertexts == <<dp.encryptedFeatures, dp.encryptedDataOwner,
                       dp.encryptedClusterId>>
  IN
  /\ counterRequest < MaxRequests
  /\ decryptionRequests' = Append(decryptionRequests,
       [handles |-> Len(ciphertexts), selector |-> "performClustering"])
  /\ requestToDataPointId' = [requestToDataPointId EXCEPT ![key] = dataPointId]
  /\ eventLog' = [eventLog EXCEPT !.ClusteringRequested[dataPointId] = @ + 1]
  /\ last' = Call("requestFederatedClustering", "ok")
  /\ UNCHANGED <<dataPointCount, encryptedDataPoints, decryptedDataPoints,
                 encryptedClusterStats, clusterList, frontendVars>>

\* Mutant: the require on isClustered is missing.
requestFederatedClustering_NoGuard(dataPointId) ==
  IssueClusteringRequest(dataPointId, counterRequest)

\* Mutant: the request is registered under the data-point id, not under the
\* request id the oracle returned.
requestFederatedClustering_KeyedById(dataPointId) ==
  IF decryptedDataPoints[dataPointId].isClustered
  THEN Revert("requestFederatedClustering", "Already clustered")
  ELSE IssueClusteringRequest(dataPointId, dataPointId)

\* Mutant: the request is registered one entry after the request id the
\* oracle returned.
requestFederatedClustering_OffByOne(dataPointId) ==
  IF decryptedDataPoints[dataPointId].isClustered
  THEN Revert("requestFederatedClustering", "Already clustered")
  ELSE IssueClusteringRequest(dataPointId, counterRequest + 1)

requestFederatedClustering(dataPointId) ==
  IF decryptedDataPoints[dataPointId].isClustered
  THEN Revert("requestFederatedClustering", "Already clustered")
  ELSE IssueClusteringRequest(dataPointId, counterRequest)

\* The writes of performClustering after its checks; `isNew` is the outcome of
\* FHE.isInitialized(encryptedClusterStats[clusterId]) == false.
FinalizeDataPoint(dataPointId, cleartexts, isNew) ==
  LET clusterId == cleartexts.clusterId
      base == IF isNew THEN FHEasEuint32(0) ELSE encryptedClusterStats[clusterId]
  IN
  /\ decryptedDataPoints' = [decryptedDataPoints EXCEPT ![dataPointId] =
       [features |-> cleartexts.features, dataOwner |-> cleartexts.dataOwner,
        clusterId |-> clusterId, isClustered |-> TRUE]]
  /\ clusterList' = IF isNew THEN Append(clusterList, clusterId) ELSE clusterList
  /\ encryptedClusterStats' = [encryptedClusterStats EXCEPT ![clusterId] =
       FHEadd(base, FHEasEuint32(1))]
  /\ eventLog' = [eventLog EXCEPT !.DataPointClustered[dataPointId] = @ + 1]
  /\ last' = Call("performClustering", "ok")
  /\ UNCHANGED <<dataPointCount, encryptedDataPoints, requestToDataPointId,
                 oracleVars, frontendVars>>

\* The checks of performClustering, in the order of the code; `isNew` is the
\* outcome of the registry test for the decoded cluster name.
ClusteringCallback(requestId, cleartexts, proof, isNew) ==
  LET dataPointId == requestToDataPointId[requestId]
      dDp == decryptedDataPoints[dataPointId]
  IN
  IF dataPointId = 0
  THEN Revert("performClustering", "Invalid request")
  ELSE IF dDp.isClustered
  THEN Revert("performClustering", "Already clustered")
  ELSE IF ~FHEcheckSignatures(requestId, cleartexts, proof)
  THEN Revert("performClustering", "Invalid proof")
  ELSE IF cleartexts.kind # "strings3"
  THEN Revert("performClustering", "abi.decode")
  ELSE FinalizeDataPoint(dataPointId, cleartexts, isNew)

ClusterIsNew(clusterId) ==
  FHEisInitialized(encryptedClusterStats[clusterId]) = FALSE

\* Mutant: the registry test always takes the "new cluster" branch.
performClustering_AlwaysNew(requestId, cleartexts, proof) ==
  ClusteringCallback(requestId, cleartexts, proof, TRUE)

\* Mutant: FHE.checkSignatures is not called.
performClustering_NoProofCheck(requestId, cleartexts, proof) ==
  LET dataPointId == requestToDataPointId[requestId] IN
  IF dataPointId = 0
  THEN Revert("performClustering", "Invalid request")
  ELSE IF decryptedDataPoints[dataPointId].isClustered
  THEN Revert("performClustering", "Already clustered")
  ELSE IF cleartexts.kind # "strings3"
  THEN Revert("performClustering", "abi.decode")
  ELSE FinalizeDataPoint(dataPointId, cleartexts,
                         ClusterIsNew(cleartexts.clusterId))

performClustering(requestId, cleartexts, proof) ==
  ClusteringCallback(requestId, cleartexts, proof,
                     ClusterIsNew(cleartexts.clusterId))

bytes32ToUint(b) == b

\* The body of requestClusterStatsDecryption after its require.
IssueStatsRequest(clusterId, stats) ==
  /\ counterRequest < MaxRequests
  /\ LET ciphertexts == <<stats>>
         reqId == counterRequest
     IN /\ decryptionRequests' = Append(decryptionRequests,
             [handles |-> Len(ciphertexts), selector |-> "decryptClusterStats"])
        /\ requestToDataPointId' = [requestToDataPointId EXCEPT ![reqId] =
             bytes32ToUint(Keccak(clusterId))]
        /\ last' = Call("requestClusterStatsDecryption", "ok")
  /\ UNCHANGED <<dataPointCount, encryptedDataPoints, decryptedDataPoints,
                 encryptedClusterStats, clusterList, eventLog, frontendVars>>

\* Mutant: the require on FHE.isInitialized(stats) is missing.
requestClusterStatsDecryption_NoRequire(clusterId) ==
  IssueStatsRequest(clusterId, encryptedClusterStats[clusterId])

requestClusterStatsDecryption(clusterId) ==
  LET stats == encryptedClusterStats[clusterId] IN
  IF ~FHEisInitialized(stats)
  THEN Revert("requestClusterStatsDecryption", "Cluster not found")
  ELSE IssueStatsRequest(clusterId, stats)

\* The first i with keccak(clusterList[i]) = hash, or 0 when the loop ends
\* without a match (the function then reverts).
getClusterFromHash(hash) ==
  LET hits == {i \in 1..Len(clusterList) :
                 bytes32ToUint(Keccak(clusterList[i])) = hash}
  IN IF hits = {} THEN 0 ELSE CHOOSE i \in hits : \A j \in hits : i <= j

\* Mutant: a successful callback deletes the entry of its request.
decryptClusterStats_DeletesRequest(requestId, cleartexts, proof) ==
  LET clusterHash == requestToDataPointId[requestId] IN
  IF getClusterFromHash(clusterHash) = 0
  THEN Revert("decryptClusterStats", "Cluster not found")
  ELSE IF ~FHEcheckSignatures(requestId, cleartexts, proof)
  THEN Revert("decryptClusterStats", "Invalid proof")
  ELSE IF cleartexts.kind # "uint32"
  THEN Revert("decryptClusterStats", "abi.decode")
  ELSE /\ last' = Call("decryptClusterStats", "ok")
       /\ requestToDataPointId' = [requestToDataPointId EXCEPT ![requestId] = 0]
       /\ UNCHANGED <<dataPointCount, encryptedDataPoints, decryptedDataPoints,
                      encryptedClusterStats, clusterList, oracleVars, eventLog,
                      frontendVars>>

decryptClusterStats(requestId, cleartexts, proof) ==
  LET clusterHash == requestToDataPointId[requestId] IN
  IF getClusterFromHash(clusterHash) = 0
  THEN Revert("decryptClusterStats", "Cluster not found")
  ELSE IF ~FHEcheckSignatures(requestId, cleartexts, proof)
  THEN Revert("decryptClusterStats", "Invalid proof")
  ELSE IF cleartexts.kind # "uint32"
  THEN Revert("decryptClusterStats", "abi.decode")
  ELSE /\ last' = Call("decryptClusterStats", "ok")
       /\ UNCHANGED <<contractVars, oracleVars, eventLog, frontendVars>>

\* ------------------------------------------------------------------ views
\* Outcome of a view call: the value returned, or the panic that ended it.
Returned(value) == [status |-> "returned", value |-> value]
Panicked(code, value) == [status |-> code, value |-> value]

\* The loop of calculateClusterCentroids from index i on, with `count` and the
\* memory array `allFeatures` as the earlier turns left them.  A write at an
\* index that is not below the array length panics with 0x32.
RECURSIVE CentroidScan(_, _, _, _)
CentroidScan(clusterId, i, count, allFeatures) ==
  IF i > dataPointCount
  THEN Returned(IF count > 0 THEN allFeatures[1] ELSE "")
  ELSE IF /\ decryptedDataPoints[i].isClustered
          /\ Keccak(decryptedDataPoints[i].clusterId) = Keccak(clusterId)
       THEN IF count >= Len(allFeatures)
            THEN Panicked("Panic(0x32)", "")
            ELSE CentroidScan(clusterId, i + 1, count + 1,
                   [allFeatures EXCEPT ![count + 1] = decryptedDataPoints[i].features])
       ELSE CentroidScan(clusterId, i + 1, count, allFeatures)

\* `string[] memory allFeatures;` is never allocated: it is the empty array.
calculateClusterCentroids(clusterId) == CentroidScan(clusterId, 1, 0, <<>>)

calculateSimilarity(features1, features2) ==
  IF Keccak(features1) = Keccak(features2) THEN 100 ELSE 50

\* The clusters of clusterList from index i on that meet the threshold.
RECURSIVE SimilarFrom(_, _, _)
SimilarFrom(targetFeatures, similarityThreshold, i) ==
  IF i > Len(clusterList) THEN <<>>
  ELSE LET centroid == calculateClusterCentroids(clusterList[i]).value IN
       (IF calculateSimilarity(targetFeatures, centroid) >= similarityThreshold
        THEN <<clusterList[i]>> ELSE <<>>)
       \o SimilarFrom(targetFeatures, similarityThreshold, i + 1)

\* Both loops visit the registry in order and call calculateClusterCentroids
\* on every entry; a panic in a call ends findSimilarClusters.
findSimilarClusters(targetFeatures, similarityThreshold) ==
  IF \E i \in 1..Len(clusterList) :
       calculateClusterCentroids(clusterList[i]).status # "returned"
  THEN Panicked("Panic(0x32)", <<>>)
  ELSE Returned(SimilarFrom(targetFeatures, similarityThreshold, 1))

\* Arguments of the views.
TargetFeatures == FeatureStrings \cup {"", "f2"}
Thresholds == {0, 50, 51, 100, 101}

\* ----------------------------------------------------------------- claims
Range(seq) == {seq[i] : i \in 1..Len(seq)}
Aggregate(c) == encryptedClusterStats[c].value
Issued(r) == r < counterRequest
IssuedByRequestClustering(r) ==
  Issued(r) /\ decryptionRequests[r + 1].selector = "performClustering"
IssuedByRequestStats(r) ==
  Issued(r) /\ decryptionRequests[r + 1].selector = "decryptClusterStats"
StorageUnchanged == UNCHANGED <<contractVars, oracleVars, eventLog>>

\* C1: the k-th successful submit is assigned id k (ids start at 1, strictly
\* increase, none is assigned twice), whatever else is interleaved; the
\* record stored under k carries id k.
C1_SequentialIds ==
  /\ Len(eventLog.DataPointSubmitted) = dataPointCount
  /\ \A k \in 1..Len(eventLog.DataPointSubmitted) :
       /\ eventLog.DataPointSubmitted[k] = k
       /\ encryptedDataPoints[k].id = k

C1_Witness ==
  /\ Len(eventLog.DataPointSubmitted) >= 3
  /\ IssuedByRequestClustering(0)
  /\ \E r \in RequestIds : IssuedByRequestStats(r)
  /\ \E k \in RecordKeys : eventLog.DataPointClustered[k] > 0

\* C2 (as claimed): once the record of an id has isClustered = true, it keeps
\* isClustered = true and the same plaintext in every later state.
C2_IsClusteredMonotonic ==
  [][\A k \in RecordKeys :
       decryptedDataPoints[k].isClustered
         => decryptedDataPoints'[k] = decryptedDataPoints[k]]_vars

\* C3: a record whose isClustered is false has empty features, owner and
\* clusterId.
C3_UnclusteredIsEmpty ==
  \A k \in RecordKeys :
    ~decryptedDataPoints[k].isClustered
      => /\ decryptedDataPoints[k].features = ""
         /\ decryptedDataPoints[k].dataOwner = ""
         /\ decryptedDataPoints[k].clusterId = ""

\* A record that was finalized and is unclustered again after its submission,
\* beside one that is clustered.
C3_Witness ==
  \E k \in 1..dataPointCount, j \in RecordKeys :
    /\ eventLog.DataPointClustered[k] > 0
    /\ ~decryptedDataPoints[k].isClustered
    /\ decryptedDataPoints[j].isClustered

\* C4 (as claimed): a callback with a request id registered by
\* requestFederatedClustering, a valid proof and an unclustered target
\* succeeds, finalizes the target with the decoded strings, adds exactly 1 to
\* the aggregate of the decoded cluster and changes no other record or
\* aggregate.
C4_CallbackFinalizes ==
  [][\A r \in RequestIds, ct \in Cleartexts, p \in BOOLEAN :
       LET target == requestToDataPointId[r] IN
       ( /\ performClustering(r, ct, p)
         /\ IssuedByRequestClustering(r)
         /\ FHEcheckSignatures(r, ct, p)
         /\ ~decryptedDataPoints[target].isClustered )
       => /\ last'.result = "ok"
          /\ decryptedDataPoints'[target] =
               [features |-> ct.features, dataOwner |-> ct.dataOwner,
                clusterId |-> ct.clusterId, isClustered |-> TRUE]
          /\ Aggregate(ct.clusterId)' = Aggregate(ct.clusterId) + 1
          /\ \A c \in AllStrings \ {ct.clusterId} :
               encryptedClusterStats'[c] = encryptedClusterStats[c]
          /\ \A k \in RecordKeys \ {target} :
               decryptedDataPoints'[k] = decryptedDataPoints[k]]_vars

\* C5 (as claimed): a callback with a request id that no request registered
\* fails and changes no state, and a callback with a request id registered by
\* a successful requestFederatedClustering is not rejected as invalid.
C5_UnknownRequestRejected ==
  [][\A r \in RequestIds, ct \in Cleartexts, p \in BOOLEAN :
       performClustering(r, ct, p)
       => /\ ~Issued(r) => last'.result = "Invalid request" /\ StorageUnchanged
          /\ IssuedByRequestClustering(r) => last'.result # "Invalid request"]_vars

\* C6: requestFederatedClustering on an id whose record is clustered fails
\* with "Already clustered": no request reaches the oracle, nothing is
\* registered, no event is emitted, no storage changes.
C6_AlreadyClusteredRejected ==
  [][\A id \in DataPointIds :
       (requestFederatedClustering(id) /\ decryptedDataPoints[id].isClustered)
       => /\ last' = Call("requestFederatedClustering", "Already clustered")
          /\ StorageUnchanged]_vars

C6_Witness ==
  /\ last = Call("requestFederatedClustering", "Already clustered")
  /\ \E k \in 1..dataPointCount : decryptedDataPoints[k].isClustered

\* The requests registered against key k by requestFederatedClustering.
ClusteringRequestsOf(k) ==
  {r \in RequestIds : IssuedByRequestClustering(r) /\ requestToDataPointId[r] = k}

\* C7: requestFederatedClustering on a submitted, unclustered id succeeds and
\* registers the id under a request id that was never registered before and
\* leaves every other entry as it was; so every issued request still resolves
\* to the target that issued it (as many entries resolve to an id as requests
\* were made for it, and a stats request resolves to its cluster hash).
C7_FreshRequestId ==
  /\ [](/\ \A k \in RecordKeys :
             Cardinality(ClusteringRequestsOf(k)) = eventLog.ClusteringRequested[k]
        /\ \A r \in RequestIds :
             /\ IssuedByRequestStats(r) => requestToDataPointId[r] \in ClusterHashes
             /\ ~Issued(r) => requestToDataPointId[r] = 0)
  /\ [][\A id \in 1..dataPointCount :
          (requestFederatedClustering(id) /\ ~decryptedDataPoints[id].isClustered)
          => /\ last' = Call("requestFederatedClustering", "ok")
             /\ \E r \in RequestIds :
                  /\ ~Issued(r)
                  /\ Issued(r)'
                  /\ requestToDataPointId' =
                       [requestToDataPointId EXCEPT ![r] = id]]_vars

\* A clustering request made while a clustering request for another point and
\* a stats request are outstanding.
C7_Witness ==
  /\ last = Call("requestFederatedClustering", "ok")
  /\ \E r \in RequestIds : IssuedByRequestStats(r)
  /\ \E r1 \in RequestIds, r2 \in RequestIds :
       /\ r1 < r2
       /\ IssuedByRequestClustering(r1) /\ IssuedByRequestClustering(r2)
       /\ requestToDataPointId[r1] \in 1..dataPointCount
       /\ requestToDataPointId[r2] \in 1..dataPointCount
       /\ requestToDataPointId[r1] # requestToDataPointId[r2]

\* C8: clusterList never holds a name twice and holds exactly the names that
\* received a decrypted data point; a name is appended at the end by the
\* first successful callback that decodes it, and at no other step, so the
\* list is in first-decryption order.  Three points submitted and finalized
\* once each as A, A, B give aggregate(A) = 2, aggregate(B) = 1 and a
\* registry of A and B.
C8_RegistryUniqueInOrder ==
  /\ [](/\ \A i \in 1..Len(clusterList), j \in 1..Len(clusterList) :
             clusterList[i] = clusterList[j] => i = j
        /\ Range(clusterList) =
             {c \in AllStrings : FHEisInitialized(encryptedClusterStats[c])}
        /\ ( /\ dataPointCount = 3
             /\ \A k \in RecordKeys :
                  eventLog.DataPointClustered[k] = IF k \in 1..3 THEN 1 ELSE 0
             /\ decryptedDataPoints[1].clusterId = "A"
             /\ decryptedDataPoints[2].clusterId = "A"
             /\ decryptedDataPoints[3].clusterId = "B" )
           => /\ Aggregate("A") = 2 /\ Aggregate("B") = 1
              /\ clusterList \in {<<"A", "B">>, <<"B", "A">>})
  /\ [][/\ clusterList' # clusterList
           => \E c \in AllStrings :
                /\ c \notin Range(clusterList)
                /\ clusterList' = Append(clusterList, c)
                /\ last' = Call("performClustering", "ok")
                /\ \E k \in RecordKeys :
                     /\ ~decryptedDataPoints[k].isClustered
                     /\ decryptedDataPoints'[k].isClustered
                     /\ decryptedDataPoints'[k].clusterId = c
        /\ \A k \in RecordKeys :
             ( /\ eventLog.DataPointClustered'[k] # eventLog.DataPointClustered[k]
               /\ decryptedDataPoints'[k].clusterId \notin Range(clusterList) )
             => clusterList' = Append(clusterList, decryptedDataPoints'[k].clusterId)
       ]_vars

C8_Witness ==
  /\ dataPointCount = 3
  /\ \A k \in 1..3 : eventLog.DataPointClustered[k] = 1
  /\ decryptedDataPoints[1].clusterId = "A"
  /\ decryptedDataPoints[2].clusterId = "A"
  /\ decryptedDataPoints[3].clusterId = "B"
  /\ clusterList = <<"A", "B">>
  /\ Aggregate("A") = 2 /\ Aggregate("B") = 1

\* C9 (as claimed): aggregate(c) equals the number of ids whose record is
\* clustered with clusterId c, and no id causes more than one increment.
C9_AggregateCountsMembers ==
  /\ \A c \in ClusterNames :
       Aggregate(c) = Cardinality({k \in RecordKeys :
                         /\ decryptedDataPoints[k].isClustered
                         /\ decryptedDataPoints[k].clusterId = c})
  /\ \A k \in RecordKeys : eventLog.DataPointClustered[k] <= 1

\* A callback for request r with cleartexts ct and a valid proof passes every
\* check of performClustering.
CanFinalize(r, ct) ==
  /\ requestToDataPointId[r] # 0
  /\ ~decryptedDataPoints[requestToDataPointId[r]].isClustered
  /\ FHEcheckSignatures(r, ct, TRUE)
  /\ ct.kind = "strings3"

\* C11: a callback with a request id registered by requestFederatedClustering
\* and a proof that does not authenticate the cleartexts for it fails and
\* changes nothing: an unclustered target stays unclustered with empty
\* plaintext (the failure is "Invalid proof" when the target passed the two
\* earlier checks), registry, aggregates and request map are as before, and
\* every valid callback for the same request id that could succeed before the
\* call can still succeed after it.
C11_InvalidProofAborts ==
  [][\A r \in RequestIds, ct \in Cleartexts, p \in BOOLEAN :
       LET target == requestToDataPointId[r] IN
       ( /\ last'.fn = "performClustering"
         /\ IssuedByRequestClustering(r)
         /\ ~FHEcheckSignatures(r, ct, p)
         /\ performClustering(r, ct, p) )
       => /\ last'.result # "ok"
          /\ StorageUnchanged
          /\ ~decryptedDataPoints[target].isClustered
               => decryptedDataPoints'[target] = EmptyDecryptedDataPoint
          /\ (target # 0 /\ ~decryptedDataPoints[target].isClustered)
               => last'.result = "Invalid proof"
          /\ \A ct2 \in ClearTriples :
               CanFinalize(r, ct2) => CanFinalize(r, ct2)']_vars

\* A callback has just failed on its proof; every request issued so far is a
\* clustering request for a submitted point, and each can still be finalized.
C11_Witness ==
  /\ last = Call("performClustering", "Invalid proof")
  /\ counterRequest > 0
  /\ \A r \in RequestIds :
       Issued(r) => /\ IssuedByRequestClustering(r)
                    /\ requestToDataPointId[r] \in 1..dataPointCount
                    /\ \E ct \in ClearTriples : CanFinalize(r, ct)

\* C12 (as claimed): a second requestFederatedClustering on an unclustered id
\* with a request outstanding succeeds and registers a request id of its own;
\* once a callback has finalized the id, a callback with a valid proof for a
\* request of that id fails with "Already clustered" and changes nothing, so
\* the plaintext of an id requested twice is written once and its cluster
\* aggregate is incremented once.
C12_SecondCallbackRejected ==
  /\ [](\A k \in DataPointIds \ {0} :
          Cardinality(ClusteringRequestsOf(k)) >= 2
            => eventLog.DataPointClustered[k] <= 1)
  /\ [][/\ \A id \in DataPointIds \ {0} :
            ( /\ requestFederatedClustering(id)
              /\ ~decryptedDataPoints[id].isClustered
              /\ ClusteringRequestsOf(id) # {} )
            => /\ last' = Call("requestFederatedClustering", "ok")
               /\ \E r \in RequestIds :
                    /\ r \notin ClusteringRequestsOf(id)
                    /\ ClusteringRequestsOf(id)' = ClusteringRequestsOf(id) \cup {r}
        /\ \A r \in RequestIds, ct \in ClearTriples :
            LET target == requestToDataPointId[r] IN
            ( /\ performClustering(r, ct, TRUE)
              /\ IssuedByRequestClustering(r)
              /\ target # 0
              /\ Cardinality(ClusteringRequestsOf(target)) >= 2 )
            => IF eventLog.DataPointClustered[target] = 0
               THEN /\ last'.result = "ok"
                    /\ decryptedDataPoints'[target].isClustered
                    /\ Aggregate(ct.clusterId)' = Aggregate(ct.clusterId) + 1
               ELSE /\ last'.result = "Already clustered"
                    /\ StorageUnchanged
       ]_vars

\* The submitted ids whose record is clustered with clusterId c.
Members(c) ==
  {k \in 1..dataPointCount : /\ decryptedDataPoints[k].isClustered
                             /\ decryptedDataPoints[k].clusterId = c}
\* The features of the lowest-id member of c, "" when c has no member.
FirstMemberFeatures(c) ==
  IF Members(c) = {} THEN ""
  ELSE decryptedDataPoints[CHOOSE k \in Members(c) :
                             \A j \in Members(c) : k <= j].features

\* C13 (as claimed): calculateClusterCentroids(c) returns the features of the
\* lowest-id record clustered with clusterId c, and "" when no record is
\* clustered into c; it returns a value for every cluster with a member.
C13_CentroidIsFirstMember ==
  \A c \in AllStrings :
    calculateClusterCentroids(c) = Returned(FirstMemberFeatures(c))

\* The registered clusters from index i on whose score, 100 when the features
\* of the first member equal targetFeatures and 50 otherwise, is at least
\* the threshold.
RECURSIVE ScoredFrom(_, _, _)
ScoredFrom(targetFeatures, threshold, i) ==
  IF i > Len(clusterList) THEN <<>>
  ELSE (IF (IF FirstMemberFeatures(clusterList[i]) = targetFeatures
            THEN 100 ELSE 50) >= threshold
        THEN <<clusterList[i]>> ELSE <<>>)
       \o ScoredFrom(targetFeatures, threshold, i + 1)

\* C14 (as claimed): findSimilarClusters(targetFeatures, threshold) returns,
\* in registry order, exactly the registered clusters whose score is at least
\* the threshold: the whole registry for a threshold <= 50, the clusters
\* whose centroid equals targetFeatures for 51..100, nothing above 100.
C14_SimilarClustersByScore ==
  \A t \in TargetFeatures, th \in Thresholds :
    /\ findSimilarClusters(t, th) = Returned(ScoredFrom(t, th, 1))
    /\ th <= 50 => findSimilarClusters(t, th) = Returned(clusterList)
    /\ th > 100 => findSimilarClusters(t, th) = Returned(<<>>)

\* C15: requestClusterStatsDecryption(c) fails with "Cluster not found" and
\* changes nothing exactly when c never received a data point (c has no
\* aggregate and is not in the registry); for every c in the registry it
\* succeeds, hands one request for one handle to the oracle, registers the
\* returned request id against the hash of c and changes nothing else.  A
\* name is in the registry exactly when it has an aggregate, and it has both
\* from the first callback that decodes it.
C15_StatsRequestNeedsCluster ==
  /\ [](\A c \in AllStrings :
          /\ c \in Range(clusterList) <=> FHEisInitialized(encryptedClusterStats[c])
          /\ c \in Range(clusterList) <=> Aggregate(c) >= 1)
  /\ [][/\ \A k \in RecordKeys :
            eventLog.DataPointClustered'[k] # eventLog.DataPointClustered[k]
              => decryptedDataPoints'[k].clusterId \in Range(clusterList')
        /\ \A c \in ClusterNames :
            requestClusterStatsDecryption(c)
            => IF c \notin Range(clusterList)
               THEN /\ last' = Call("requestClusterStatsDecryption", "Cluster not found")
                    /\ StorageUnchanged
               ELSE /\ last' = Call("requestClusterStatsDecryption", "ok")
                    /\ decryptionRequests' = Append(decryptionRequests,
                         [handles |-> 1, selector |-> "decryptClusterStats"])
                    /\ requestToDataPointId' =
                         [requestToDataPointId EXCEPT ![counterRequest] = Keccak(c)]
                    /\ UNCHANGED <<dataPointCount, encryptedDataPoints,
                                   decryptedDataPoints, encryptedClusterStats,
                                   clusterList, eventLog>>
       ]_vars

\* A stats request for the registered cluster A is outstanding and a request
\* for B, which received no data point, has just been rejected.
C15_Witness ==
  /\ last = Call("requestClusterStatsDecryption", "Cluster not found")
  /\ clusterList = <<"A">>
  /\ \E r \in RequestIds :
       IssuedByRequestStats(r) /\ requestToDataPointId[r] = Keccak("A")

\* C17 (as claimed): every key whose decrypted record is clustered or holds
\* plaintext is a submitted id, 1 <= id <= dataPointCount; this covers ids
\* submitted later and the cluster-hash keys of the request map.
C17_OnlySubmittedFinalized ==
  \A k \in RecordKeys :
    ( \/ decryptedDataPoints[k].isClustered
      \/ decryptedDataPoints[k].features # ""
      \/ decryptedDataPoints[k].dataOwner # ""
      \/ decryptedDataPoints[k].clusterId # "" )
    => (1 <= k /\ k <= dataPointCount)

InitContract ==
  /\ dataPointCount = 0
  /\ encryptedDataPoints = [k \in RecordKeys |-> EmptyEncryptedDataPoint]
  /\ decryptedDataPoints = [k \in RecordKeys |-> EmptyDecryptedDataPoint]
  /\ encryptedClusterStats = [c \in AllStrings |-> Uninitialized]
  /\ clusterList = <<>>
  /\ requestToDataPointId = [r \in RequestIds |-> 0]
  /\ decryptionRequests = <<>>
  /\ eventLog = [DataPointSubmitted |-> <<>>,
                 ClusteringRequested |-> [k \in RecordKeys |-> 0],
                 DataPointClustered |-> [k \in RecordKeys |-> 0]]
  /\ last = Call("constructor", "ok")
  /\ delivered = {}

InitFrontendIdle ==
  /\ kvStore = <<>>
  /\ runs = <<>>
  /\ clusters = <<>>
  /\ indexTrace = <<>>

Init == InitContract /\ InitFrontendIdle

\* Calls by any account; none of them is the oracle's own delivery.
Next ==
  \/ \E f \in InputCiphertexts, o \in InputCiphertexts, c \in InputCiphertexts :
       submitEncryptedDataPoint(f, o, c) /\ UNCHANGED delivered
  \/ \E id \in DataPointIds :
       requestFederatedClustering(id) /\ UNCHANGED delivered
  \/ \E r \in RequestIds, ct \in Cleartexts, p \in BOOLEAN :
       performClustering(r, ct, p) /\ UNCHANGED delivered
  \/ \E c \in ClusterNames :
       requestClusterStatsDecryption(c) /\ UNCHANGED delivered
  \/ \E r \in RequestIds, ct \in Cleartexts, p \in BOOLEAN :
       decryptClusterStats(r, ct, p) /\ UNCHANGED delivered

Spec == Init /\ [][Next]_vars

\* ------------------------------------------------------ oracle delivery
\* The oracle answers an outstanding request once: it calls the selector
\* saved with the request, with the decrypted values of the saved handles and
\* the signatures over them.  Whether the callback succeeds or reverts, the
\* request is answered.
Outstanding(r) == r < counterRequest /\ r \notin delivered

OracleDelivers(r) ==
  /\ Outstanding(r)
  /\ delivered' = delivered \cup {r}
  /\ \E ct \in Cleartexts :
       /\ FHEcheckSignatures(r, ct, TRUE)
       /\ IF decryptionRequests[r + 1].selector = "performClustering"
          THEN performClustering(r, ct, TRUE)
          ELSE decryptClusterStats(r, ct, TRUE)

\* Every call of Next, by any account, and the oracle's deliveries.
NextOracle ==
  \/ \E f \in InputCiphertexts, o \in InputCiphertexts, c \in InputCiphertexts :
       /\ dataPointCount < MaxOraclePoints
       /\ submitEncryptedDataPoint(f, o, c) /\ UNCHANGED delivered
  \/ \E id \in DataPointIds :
       /\ counterRequest < MaxOracleRequests
            \/ decryptedDataPoints[id].isClustered
       /\ requestFederatedClustering(id) /\ UNCHANGED delivered
  \/ \E r \in RequestIds, ct \in Cleartexts, p \in BOOLEAN :
       performClustering(r, ct, p) /\ UNCHANGED delivered
  \/ \E c \in ClusterNames :
       /\ counterRequest < MaxOracleRequests
            \/ ~FHEisInitialized(encryptedClusterStats[c])
       /\ requestClusterStatsDecryption(c) /\ UNCHANGED delivered
  \/ \E r \in RequestIds, ct \in Cleartexts, p \in BOOLEAN :
       decryptClusterStats(r, ct, p) /\ UNCHANGED delivered
  \/ \E r \in RequestIds : OracleDelivers(r)

\* The oracle answers every outstanding request eventually.
OracleFairness == \A r \in RequestIds : WF_vars(OracleDelivers(r))

SpecOracle == Init /\ [][NextOracle]_vars /\ OracleFairness

\* A submitted data point with a clustering request the oracle has not
\* answered yet.
PendingClustering(id) ==
  /\ 1 <= id /\ id <= dataPointCount
  /\ \E r \in RequestIds :
       /\ IssuedByRequestClustering(r)
       /\ requestToDataPointId[r] = id
       /\ Outstanding(r)

\* A submitted data point for which requestFederatedClustering succeeded
\* (the event was emitted) and which no callback has finalized so far.
RequestedNotFinalized(id) ==
  /\ 1 <= id /\ id <= dataPointCount
  /\ eventLog.ClusteringRequested[id] > 0
  /\ eventLog.DataPointClustered[id] = 0

\* C19: when the oracle answers every outstanding request, every submitted
\* data point for which a clustering request succeeded and is outstanding,
\* or succeeded and was never followed by a finalization, is eventually
\* clustered;
\* and nothing but a successful performClustering sets isClustered, no
\* operation changes or removes the entry or the saved handles of an issued
\* request, so a request the oracle never answers stays as it is.
C19_CallbackEventuallyFinalizes ==
  /\ \A id \in DataPointIds :
       (PendingClustering(id) \/ RequestedNotFinalized(id))
         ~> decryptedDataPoints[id].isClustered
  /\ [][/\ \A k \in RecordKeys :
            (~decryptedDataPoints[k].isClustered /\ decryptedDataPoints'[k].isClustered)
              => last' = Call("performClustering", "ok")
        /\ \A r \in RequestIds :
            Issued(r) => /\ Issued(r)'
                         /\ requestToDataPointId'[r] = requestToDataPointId[r]
                         /\ decryptionRequests'[r + 1] = decryptionRequests[r + 1]
       ]_vars

\* The oracle has answered a request for a submitted point, the point is
\* clustered, and a request for another submitted point is still pending.
C19_Witness ==
  /\ \E r \in delivered :
       /\ IssuedByRequestClustering(r)
       /\ requestToDataPointId[r] \in 1..dataPointCount
       /\ decryptedDataPoints[requestToDataPointId[r]].isClustered
  /\ \E id \in DataPointIds :
       PendingClustering(id) /\ ~decryptedDataPoints[id].isClustered
\* --------------------------------------------------------------- frontend
\* Cluster ids: 0 is a cluster stored before the runs start, i > 0 is the id
\* `${Date.now()}-${random}` that createCluster run i generates.
ClusterIds == 0..MaxCreators
Creators == 1..MaxCreators
Instances == Creators
\* Math.floor(Date.now() / 1000)
Timestamps == {1, 2}

IndexKey == [prefix |-> "cluster_keys", id |-> 0]
RecordKey(id) == [prefix |-> "cluster_", id |-> id]
LedgerKeys == {IndexKey} \cup {RecordKey(id) : id \in ClusterIds}

\* Bytes on the ledger: empty, the UTF-8 of a JSON text, or bytes that
\* JSON.parse(ethers.toUtf8String(..)) throws on.
EmptyBytes == [kind |-> "empty"]
MalformedBytes == [kind |-> "malformed"]
\* ethers.toUtf8Bytes(JSON.stringify(value))
toUtf8BytesJSONstringify(value) == [kind |-> "json", value |-> value]
\* JSON.parse(ethers.toUtf8String(bytes)) throws
JSONparseThrows(bytes) == bytes.kind # "json"
\* JSON.parse(ethers.toUtf8String(bytes)) when it does not throw
JSONparse(bytes) == bytes.value

JSONarray(items) == [type |-> "array", items |-> items]
JSONnumber == [type |-> "number"]
JSONnull == [type |-> "null"]
\* The JavaScript value `undefined` (the read of a property a value does not
\* have), coded as a number outside the timestamps and the owners.
undefined == -1
\* The object createCluster stores; data, name, status, dataPoints and
\* algorithm are copied through and read by no step modelled here.
ClusterDataObject(timestamp, owner) ==
  [type |-> "object", timestamp |-> timestamp, owner |-> owner]

\* `clusterData.name` and the other property reads of loadClusters throw a
\* TypeError on null; a number has no such property and an object has those
\* it was stored with.
PropertyReadThrows(clusterData) == clusterData.type = "null"
ReadTimestamp(clusterData) ==
  IF clusterData.type = "object" THEN clusterData.timestamp ELSE undefined
ReadOwner(clusterData) ==
  IF clusterData.type = "object" THEN clusterData.owner ELSE undefined

getData(key) == kvStore[key]
setData(key, bytes) == kvStore' = [kvStore EXCEPT ![key] = bytes]

\* list.sort((a, b) => b.timestamp - a.timestamp): stable, descending.
RECURSIVE InsertByTimestamp(_, _)
InsertByTimestamp(sorted, e) ==
  IF sorted = <<>> THEN <<e>>
  ELSE IF Head(sorted).timestamp >= e.timestamp
       THEN <<Head(sorted)>> \o InsertByTimestamp(Tail(sorted), e)
       ELSE <<e>> \o sorted

RECURSIVE SortByTimestampDesc(_)
SortByTimestampDesc(list) ==
  IF list = <<>> THEN <<>>
  ELSE InsertByTimestamp(SortByTimestampDesc(SubSeq(list, 1, Len(list) - 1)),
                         list[Len(list)])

\* b.timestamp - a.timestamp is NaN when a timestamp is undefined, and the
\* sort takes NaN for 0: an element without timestamp compares equal to every
\* other.  The comparator is then consistent only if all the numeric
\* timestamps are equal.
ComparatorConsistent(list) ==
  \/ \A k \in 1..Len(list) : list[k].timestamp # undefined
  \/ \A j \in 1..Len(list), k \in 1..Len(list) :
       (list[j].timestamp # undefined /\ list[k].timestamp # undefined)
         => list[j].timestamp = list[k].timestamp

PermutationsOf(list) ==
  {[k \in 1..Len(list) |-> list[f[k]]] :
     f \in {g \in [1..Len(list) -> 1..Len(list)] :
              \A j \in 1..Len(list), k \in 1..Len(list) : g[j] = g[k] => j = k}}

\* The arrays list.sort((a, b) => b.timestamp - a.timestamp) can leave: the
\* stable descending order; the order as it was when every comparison gives
\* 0 or NaN; an implementation-defined order when the comparator is not
\* consistent.
ArraySort(list) ==
  IF \A k \in 1..Len(list) : list[k].timestamp # undefined
  THEN {SortByTimestampDesc(list)}
  ELSE IF ComparatorConsistent(list) THEN {list}
  ELSE PermutationsOf(list)

IdleRun == [pc |-> "idle", clusterId |-> 0, keysBytes |-> EmptyBytes,
            keys |-> <<>>, list |-> <<>>, fetches |-> <<>>, outcome |-> ""]

Goto(i, pc) == runs' = [runs EXCEPT ![i].pc = pc]
Finish(i, outcome) ==
  runs' = [runs EXCEPT ![i].pc = "done", ![i].outcome = outcome]

\* loadClusters up to the index read: getContractReadOnly() gives null,
\* isAvailable() is false, or one of them throws: the run ends and
\* setClusters is not called.
LoadStart(i) ==
  /\ runs[i].pc = "loadStart"
  /\ \E contract \in {"ok", "null", "unavailable", "throws"} :
       IF contract = "ok" THEN Goto(i, "loadKeys") ELSE Finish(i, "not loaded")
  /\ UNCHANGED <<contractVars, oracleVars, eventLog, last, kvStore, clusters,
                 indexTrace>>

\* setClusters(list) after list.sort(...), and the finally block.
LoadFinish(i, list, fetches) ==
  /\ \E sorted \in ArraySort(list) : clusters' = [clusters EXCEPT ![i] = sorted]
  /\ runs' = [runs EXCEPT ![i].pc = "done", ![i].outcome = "loaded",
                          ![i].keys = <<>>, ![i].list = <<>>,
                          ![i].fetches = fetches]

\* getData("cluster_keys") and the parse of the index.
LoadKeys(i) ==
  /\ runs[i].pc = "loadKeys"
  /\ \E fetched \in BOOLEAN :
       LET keysBytes == getData(IndexKey) IN
       IF ~fetched
       THEN Finish(i, "not loaded") /\ UNCHANGED clusters
       ELSE IF keysBytes.kind = "empty" \/ JSONparseThrows(keysBytes)
       THEN LoadFinish(i, <<>>, <<>>)
       ELSE IF JSONparse(keysBytes).type # "array"
       THEN \* for (const key of keys) throws: keys is not iterable
            Finish(i, "not loaded") /\ UNCHANGED clusters
       ELSE IF JSONparse(keysBytes).items = <<>>
       THEN LoadFinish(i, <<>>, <<>>)
       ELSE /\ runs' = [runs EXCEPT ![i].pc = "loadItem",
                          ![i].keys = JSONparse(keysBytes).items,
                          ![i].list = <<>>, ![i].fetches = <<>>]
            /\ UNCHANGED clusters
  /\ UNCHANGED <<contractVars, oracleVars, eventLog, last, kvStore, indexTrace>>

\* One turn of the for loop: getData(`cluster_${key}`) for the next key;
\* `fetches` notes, key by key, whether the getData returned or threw.
LoadItem(i) ==
  /\ runs[i].pc = "loadItem"
  /\ \E fetched \in BOOLEAN :
       LET key == Head(runs[i].keys)
           rest == Tail(runs[i].keys)
           clusterBytes == getData(RecordKey(key))
           pushed ==
             IF /\ fetched
                /\ clusterBytes.kind # "empty"
                /\ ~JSONparseThrows(clusterBytes)
                /\ ~PropertyReadThrows(JSONparse(clusterBytes))
             THEN Append(runs[i].list,
                         [id |-> key,
                          timestamp |-> ReadTimestamp(JSONparse(clusterBytes)),
                          owner |-> ReadOwner(JSONparse(clusterBytes))])
             ELSE runs[i].list
           fetches == Append(runs[i].fetches, fetched)
       IN IF rest = <<>>
          THEN LoadFinish(i, pushed, fetches)
          ELSE /\ runs' = [runs EXCEPT ![i].keys = rest, ![i].list = pushed,
                                       ![i].fetches = fetches]
               /\ UNCHANGED clusters
  /\ UNCHANGED <<contractVars, oracleVars, eventLog, last, kvStore, indexTrace>>

\* createCluster up to `await getContractWithSigner()`.
CreateStart(i) ==
  /\ i \in Creators
  /\ runs[i].pc = "idle"
  /\ \E provider \in BOOLEAN :
       IF provider THEN Goto(i, "getSigner") ELSE Finish(i, "no wallet")
  /\ UNCHANGED <<contractVars, oracleVars, eventLog, last, kvStore, clusters,
                 indexTrace>>

\* setData(`cluster_${clusterId}`, ...) with the new id and record.
CreateStoreRecord(i) ==
  /\ runs[i].pc = "getSigner"
  /\ \E contract \in BOOLEAN, sent \in BOOLEAN, timestamp \in Timestamps :
       IF contract /\ sent
       THEN /\ setData(RecordKey(i),
                       toUtf8BytesJSONstringify(ClusterDataObject(timestamp, i)))
            /\ runs' = [runs EXCEPT ![i].pc = "storedRecord", ![i].clusterId = i]
       ELSE Finish(i, "error") /\ UNCHANGED kvStore
  /\ UNCHANGED <<contractVars, oracleVars, eventLog, last, clusters, indexTrace>>

\* getData("cluster_keys").
CreateReadIndex(i) ==
  /\ runs[i].pc = "storedRecord"
  /\ \E fetched \in BOOLEAN :
       IF fetched
       THEN /\ runs' = [runs EXCEPT ![i].pc = "readIndex",
                                    ![i].keysBytes = getData(IndexKey)]
            /\ indexTrace' = Append(indexTrace, [op |-> "read", by |-> i])
       ELSE Finish(i, "error") /\ UNCHANGED indexTrace
  /\ UNCHANGED <<contractVars, oracleVars, eventLog, last, kvStore, clusters>>

\* The keys createCluster holds after the parse of what it read.
ParsedKeys(keysBytes) ==
  IF keysBytes.kind = "empty" \/ JSONparseThrows(keysBytes)
  THEN JSONarray(<<>>)
  ELSE JSONparse(keysBytes)

\* keys.push(clusterId) and setData("cluster_keys", ...) with `pushed` the
\* array written; then loadClusters starts.
WriteIndex(i, keys, pushed) ==
  /\ runs[i].pc = "readIndex"
  /\ \E sent \in BOOLEAN :
       IF keys.type = "array" /\ sent
       THEN /\ setData(IndexKey, toUtf8BytesJSONstringify(JSONarray(pushed)))
            /\ Goto(i, "loadStart")
            /\ indexTrace' = Append(indexTrace, [op |-> "write", by |-> i])
       ELSE \* keys.push is not a function, or the transaction is rejected
            Finish(i, "error") /\ UNCHANGED <<kvStore, indexTrace>>
  /\ UNCHANGED <<contractVars, oracleVars, eventLog, last, clusters>>

\* Mutant: the new id is written alone, the keys read are dropped.
CreateWriteIndex_DropsKeys(i) ==
  WriteIndex(i, ParsedKeys(runs[i].keysBytes), <<runs[i].clusterId>>)

CreateWriteIndex(i) ==
  LET keys == ParsedKeys(runs[i].keysBytes) IN
  WriteIndex(i, keys,
             IF keys.type = "array" THEN Append(keys.items, runs[i].clusterId)
             ELSE <<>>)

\* Ledger contents the runs can start from.
InitialIndexes ==
  {EmptyBytes, MalformedBytes, toUtf8BytesJSONstringify(JSONnumber),
   toUtf8BytesJSONstringify(JSONarray(<<0>>))}
InitialRecords ==
  {EmptyBytes, MalformedBytes, toUtf8BytesJSONstringify(ClusterDataObject(1, 0))}

InitFrontend ==
  /\ \E index \in InitialIndexes, record \in InitialRecords :
       kvStore = [k \in LedgerKeys |->
                    IF k = IndexKey THEN index
                    ELSE IF k = RecordKey(0) THEN record
                    ELSE EmptyBytes]
  /\ runs = [i \in Instances |-> IdleRun]
  /\ clusters = [i \in Instances |-> <<>>]
  /\ indexTrace = <<>>

NextFrontend ==
  \/ \E i \in Instances : LoadStart(i) /\ UNCHANGED delivered
  \/ \E i \in Instances : LoadKeys(i) /\ UNCHANGED delivered
  \/ \E i \in Instances : LoadItem(i) /\ UNCHANGED delivered
  \/ \E i \in Creators : CreateStart(i) /\ UNCHANGED delivered
  \/ \E i \in Creators : CreateStoreRecord(i) /\ UNCHANGED delivered
  \/ \E i \in Creators : CreateReadIndex(i) /\ UNCHANGED delivered
  \/ \E i \in Creators : CreateWriteIndex(i) /\ UNCHANGED delivered

InitLedger == InitContract /\ InitFrontend

SpecFrontend == InitLedger /\ [][NextFrontend]_vars

\* ---------------------------------------------------- loadClusters alone
\* One loadClusters run (the mount effect of one App instance) over any
\* content of the ledger: the index is empty, unparsable, the JSON text
\* `null` or an array of up to MaxKeys ids, repeats included; a record is
\* empty, unparsable, the JSON text `null`, an object without timestamp
\* (`{}`) or a record as createCluster stores it.
KeyArrays == UNION {[1..n -> ClusterIds] : n \in 0..MaxKeys}
LoadIndexes ==
  {EmptyBytes, MalformedBytes, toUtf8BytesJSONstringify(JSONnull)}
    \cup {toUtf8BytesJSONstringify(JSONarray(keys)) : keys \in KeyArrays}
LoadRecords ==
  {EmptyBytes, MalformedBytes, toUtf8BytesJSONstringify(JSONnull),
   toUtf8BytesJSONstringify(ClusterDataObject(undefined, undefined))}
    \cup {toUtf8BytesJSONstringify(ClusterDataObject(t, 0)) : t \in Timestamps}

InitLoad ==
  /\ kvStore \in [LedgerKeys -> LoadIndexes \cup LoadRecords]
  /\ kvStore[IndexKey] \in LoadIndexes
  /\ \A id \in ClusterIds : kvStore[RecordKey(id)] \in LoadRecords
  /\ runs = [i \in Instances |->
               IF i = 1 THEN [IdleRun EXCEPT !.pc = "loadStart"] ELSE IdleRun]
  /\ clusters = [i \in Instances |-> <<>>]
  /\ indexTrace = <<>>

NextLoad ==
  \/ \E i \in Instances : LoadStart(i) /\ UNCHANGED delivered
  \/ \E i \in Instances : LoadKeys(i) /\ UNCHANGED delivered
  \/ \E i \in Instances : LoadItem(i) /\ UNCHANGED delivered

InitLoadLedger == InitContract /\ InitLoad

SpecLoad == InitLoadLedger /\ [][NextLoad]_vars
\* ------------------------------------------------------- claims (frontend)
HasIndexOp(op, p) ==
  \E k \in 1..Len(indexTrace) : indexTrace[k] = [op |-> op, by |-> p]
PosOfIndexOp(op, p) ==
  CHOOSE k \in 1..Len(indexTrace) : indexTrace[k] = [op |-> op, by |-> p]
IndexWriters == {p \in Creators : HasIndexOp("write", p)}
IndexItems == JSONparse(kvStore[IndexKey]).items
KeysReadBy(p) == ParsedKeys(runs[p].keysBytes).items
RecordFetchable(p) ==
  /\ kvStore[RecordKey(p)].kind = "json"
  /\ JSONparse(kvStore[RecordKey(p)]).type = "object"
  /\ JSONparse(kvStore[RecordKey(p)]).owner = p

\* The keys of the index as loadClusters iterates them.
IndexKeys ==
  IF kvStore[IndexKey].kind = "json" /\ JSONparse(kvStore[IndexKey]).type = "array"
  THEN JSONparse(kvStore[IndexKey]).items ELSE <<>>
\* The record of the key at position p of the index is present and decodes
\* to a record.
RecordDecodes(p) ==
  /\ kvStore[RecordKey(IndexKeys[p])].kind = "json"
  /\ ~PropertyReadThrows(JSONparse(kvStore[RecordKey(IndexKeys[p])]))
\* The positions of the index that a finished run i lists: the record
\* decodes and its fetch did not fail.
Listed(i) ==
  {p \in 1..Len(IndexKeys) : runs[i].fetches[p] /\ RecordDecodes(p)}

\* C16 (as claimed): a loadClusters run that started on the entries never
\* aborts; the list it produces has exactly one element per key of the index
\* whose record is present, decodes and was fetched, and none for the other
\* keys; the list is in non-increasing order of timestamp; an unparsable
\* index gives the empty list.
C16_LoadSkipsBadEntries ==
  \A i \in Instances :
    (runs[i].pc = "done" /\ runs[i].outcome # "")
    => /\ runs[i].fetches # <<>> => runs[i].outcome = "loaded"
       /\ runs[i].outcome = "loaded"
            => /\ Len(runs[i].fetches) = Len(IndexKeys)
               /\ Len(clusters[i]) = Cardinality(Listed(i))
               /\ \A id \in ClusterIds :
                    Cardinality({k \in 1..Len(clusters[i]) : clusters[i][k].id = id})
                      = Cardinality({p \in Listed(i) : IndexKeys[p] = id})
               /\ \A j \in 1..Len(clusters[i]), k \in 1..Len(clusters[i]) :
                    ( /\ j < k
                      /\ clusters[i][j].timestamp # undefined
                      /\ clusters[i][k].timestamp # undefined )
                    => clusters[i][j].timestamp >= clusters[i][k].timestamp
               /\ kvStore[IndexKey] = MalformedBytes => clusters[i] = <<>>

\* C10: when exactly two createCluster runs p and q have written
\* "cluster_keys", p before q: if q read the index before p wrote it (both
\* read before either wrote), the index holds q's id and not p's, is one
\* entry longer than the index read (one less than the two creations), and
\* the record of p is still stored under its own key; if q read after p
\* wrote, the index holds both ids and is two entries longer.
C10_IndexRaceDropsOne ==
  \A p \in Creators, q \in Creators :
    ( /\ p # q
      /\ IndexWriters = {p, q}
      /\ PosOfIndexOp("write", p) < PosOfIndexOp("write", q) )
    => /\ RecordFetchable(p) /\ RecordFetchable(q)
       /\ PosOfIndexOp("read", q) < PosOfIndexOp("write", p)
            => /\ IndexItems = Append(KeysReadBy(q), q)
               /\ q \in Range(IndexItems) /\ p \notin Range(IndexItems)
               /\ Len(IndexItems) = Len(KeysReadBy(p)) + 1
       /\ PosOfIndexOp("write", p) < PosOfIndexOp("read", q)
            => /\ p \in Range(IndexItems) /\ q \in Range(IndexItems)
               /\ Len(IndexItems) = Len(KeysReadBy(p)) + 2

\* Both runs are over, both read before either wrote, and one id is lost.
C10_Witness ==
  \E p \in Creators, q \in Creators :
    /\ p # q
    /\ IndexWriters = {p, q}
    /\ PosOfIndexOp("read", q) < PosOfIndexOp("write", p)
    /\ PosOfIndexOp("write", p) < PosOfIndexOp("write", q)
    /\ runs[p].pc = "done" /\ runs[q].pc = "done"
    /\ p \notin Range(IndexItems)
    /\ RecordFetchable(p)
====
